---- MODULE Spec2Model ----
(***************************************************************************)
(* Model of Vector<T> (src/Vector.h): a hand-rolled dynamic array that     *)
(* owns a heap buffer m_Data of m_Capacity slots of which the first        *)
(* m_Size are live.  The model has two named Vector objects, a and b, and  *)
(* an explicit heap of buffers, so that ownership, release and aliasing    *)
(* of buffers are part of the state.  T is instantiated by a small set of  *)
(* integer values; a slot that new T[n] left uninitialised holds Undef.    *)
(***************************************************************************)
EXTENDS Integers, Sequences, FiniteSets, TLC

\* ------------------------------------------------------------------ bounds
MaxVal == 2
MaxHeap == 4
MaxSize == 3
MaxReserve == 2
MaxLit == 2
MaxBuf == 3
MaxRun == 2

Inst == {"a", "b"}
NoInst == "-"
Values == 1..MaxVal
Undef == 0
NULL == 0
BufIds == 1..MaxBuf
Lits == UNION {[1..n -> Values] : n \in 0..MaxLit}

VARIABLES
    alive,        \* which Vector objects are currently constructed
    m_Data,       \* per object: the buffer it points to, or NULL
    m_Capacity,   \* per object: allocated slot count
    m_Size,       \* per object: live element count
    heap,         \* per buffer id: its slots (empty when not allocated)
    allocated,    \* buffer ids obtained from new[] and not yet delete[]d
    last,         \* the call that produced this state and its outcome
    hist,         \* per object, kept by the auxiliary programs: the values pushed
                  \* back so far (push-only program); the value given to the
                  \* latest PushFront, then the elements before it (front program)
    copyPair      \* {src, dst} of the latest copy while neither has since been
                  \* constructed, assigned to, moved from or destroyed

vars == <<alive, m_Data, m_Capacity, m_Size, heap, allocated, last, hist, copyPair>>

\* --------------------------------------------------------------- the world
\* The operations are functions on a record of the program state, so that
\* one call can be composed of others (PushBack calls Grow, the literal
\* constructor calls PushBack).  ub records undefined behaviour met on the way.
World == [alive |-> alive, data |-> m_Data, cap |-> m_Capacity, size |-> m_Size,
          heap |-> heap, live |-> allocated, ub |-> "none"]

Flag(w, u) == IF w.ub = "none" THEN [w EXCEPT !.ub = u] ELSE w

\* the smallest id the allocator can hand out (NULL when the model's heap is full)
FreeIds(w) == BufIds \ w.live
NewId(w) ==
    IF FreeIds(w) = {} THEN NULL
    ELSE CHOOSE id \in FreeIds(w) : \A other \in FreeIds(w) : id <= other

\* new T[n]: n uninitialised slots; n = 0 still yields a distinct non-null buffer
NewArray(w, id, n) ==
    IF id = NULL THEN Flag(w, "nomem")
    ELSE [w EXCEPT !.live = @ \cup {id}, !.heap[id] = [i \in 1..n |-> Undef]]

\* delete[] p: no-op on nullptr, double free on a buffer that is not allocated
DeleteArray(w, id) ==
    IF id = NULL THEN w
    ELSE IF id \notin w.live THEN Flag(w, "doublefree")
    ELSE [w EXCEPT !.live = @ \ {id}, !.heap[id] = <<>>]

\* p[i] as an rvalue
ReadCell(w, id, i) ==
    IF id \in w.live /\ 0 <= i /\ i < Len(w.heap[id]) THEN w.heap[id][i + 1] ELSE Undef

\* p[i] = v
WriteCell(w, id, i, v) ==
    IF id \in w.live /\ 0 <= i /\ i < Len(w.heap[id]) THEN [w EXCEPT !.heap[id][i + 1] = v]
    ELSE IF id = NULL THEN Flag(w, "null")
    ELSE IF id \in w.live THEN Flag(w, "oob")
    ELSE Flag(w, "uaf")

\* for (i = from; i < to; ++i) dst[i] = src[i];
RECURSIVE CopyLoop(_, _, _, _, _)
CopyLoop(w, dst, src, i, to) ==
    IF i < to THEN CopyLoop(WriteCell(w, dst, i, ReadCell(w, src, i)), dst, src, i + 1, to)
    ELSE w

\* the live elements of an object, in index order
Elems(x) == [i \in 1..m_Size[x] |-> ReadCell(World, m_Data[x], i - 1)]

\* ------------------------------------------------------------ constructors
\* Vector()
DefaultCtor(w, x) ==
    [w EXCEPT !.alive[x] = TRUE, !.data[x] = NULL, !.cap[x] = 0, !.size[x] = 0]

\* mutant: a zero capacity allocates nothing
ReserveCtor_NullWhenZero(w, x, n) ==
    LET id == IF n = 0 THEN NULL ELSE NewId(w)
    IN  [(IF n = 0 THEN w ELSE NewArray(w, id, n)) EXCEPT
            !.alive[x] = TRUE, !.data[x] = id, !.cap[x] = n, !.size[x] = 0]

\* Vector(size_t capacity)
ReserveCtor(w, x, n) ==
    LET id == NewId(w)
    IN  [NewArray(w, id, n) EXCEPT
            !.alive[x] = TRUE, !.data[x] = id, !.cap[x] = n, !.size[x] = 0]

\* mutant: the copy shares the source's buffer
CopyCtor_Shallow(w, x, o) ==
    [w EXCEPT !.alive[x] = TRUE, !.data[x] = w.data[o],
              !.cap[x] = w.cap[o], !.size[x] = w.size[o]]

\* mutant: the copy is given just the capacity its elements need
CopyCtor_ShrinkToFit(w, x, o) ==
    LET id == NewId(w)
        w1 == [NewArray(w, id, w.size[o]) EXCEPT
                  !.alive[x] = TRUE, !.data[x] = id,
                  !.cap[x] = w.size[o], !.size[x] = w.size[o]]
    IN  CopyLoop(w1, id, w.data[o], 0, w1.size[x])

\* Vector(const Vector& other)
CopyCtor(w, x, o) ==
    LET id == NewId(w)
        w1 == [NewArray(w, id, w.cap[o]) EXCEPT
                  !.alive[x] = TRUE, !.data[x] = id,
                  !.cap[x] = w.cap[o], !.size[x] = w.size[o]]
    IN  CopyLoop(w1, id, w.data[o], 0, w1.size[x])

\* mutant: the source is not reset
MoveCtor_NoReset(w, x, o) ==
    [w EXCEPT !.alive[x] = TRUE,
              !.data[x] = w.data[o], !.cap[x] = w.cap[o], !.size[x] = w.size[o]]

\* mutant: the source keeps its capacity
MoveCtor_KeepCapacity(w, x, o) ==
    [w EXCEPT !.alive[x] = TRUE,
              !.data[x] = w.data[o], !.cap[x] = w.cap[o], !.size[x] = w.size[o],
              !.data[o] = NULL, !.size[o] = 0]

\* Vector(Vector&& other)
MoveCtor(w, x, o) ==
    [w EXCEPT !.alive[x] = TRUE,
              !.data[x] = w.data[o], !.cap[x] = w.cap[o], !.size[x] = w.size[o],
              !.data[o] = NULL, !.cap[o] = 0, !.size[o] = 0]

\* mutant: no check for assignment to itself
CopyAssign_NoSelfCheck(w, x, o) ==
    LET w1 == DeleteArray(w, w.data[x])
        id == NewId(w1)
        w2 == [NewArray(w1, id, w.cap[o]) EXCEPT
                  !.cap[x] = w.cap[o], !.size[x] = w.size[o], !.data[x] = id]
    IN  CopyLoop(w2, id, w.data[o], 0, w2.size[x])

\* Vector& operator=(const Vector& other)
CopyAssign(w, x, o) ==
    IF x = o THEN w
    ELSE LET w1 == DeleteArray(w, w.data[x])
             id == NewId(w1)
             w2 == [NewArray(w1, id, w.cap[o]) EXCEPT
                       !.cap[x] = w.cap[o], !.size[x] = w.size[o], !.data[x] = id]
         IN  CopyLoop(w2, id, w.data[o], 0, w2.size[x])

\* mutant: the source keeps its size and capacity
MoveAssign_NoReset(w, x, o) ==
    IF x = o THEN w
    ELSE LET w1 == DeleteArray(w, w.data[x])
         IN  [w1 EXCEPT !.data[x] = w.data[o], !.cap[x] = w.cap[o], !.size[x] = w.size[o],
                        !.data[o] = NULL]

\* Vector& operator=(Vector&& other)
MoveAssign(w, x, o) ==
    IF x = o THEN w
    ELSE LET w1 == DeleteArray(w, w.data[x])
         IN  [w1 EXCEPT !.data[x] = w.data[o], !.cap[x] = w.cap[o], !.size[x] = w.size[o],
                        !.data[o] = NULL, !.cap[o] = 0, !.size[o] = 0]

\* ~Vector(); the object is gone afterwards, its fields are normalised
Dtor(w, x) ==
    LET w1 == IF w.data[x] # NULL THEN DeleteArray(w, w.data[x]) ELSE w
    IN  [w1 EXCEPT !.alive[x] = FALSE, !.data[x] = NULL, !.cap[x] = 0, !.size[x] = 0]

\* ------------------------------------------------------------------ growth
\* mutant: grows one push too late
NeedsGrow_Late(w, x) == w.size[x] > w.cap[x]

\* if (m_Size + 1 > m_Capacity)
NeedsGrow(w, x) == w.size[x] + 1 > w.cap[x]

\* mutant: grows by one slot instead of doubling
NewCapacity_PlusOne(c) == c + 1

\* (m_Capacity == 0) ? 1 : m_Capacity * 2
NewCapacity(c) == IF c = 0 THEN 1 ELSE c * 2

\* mutant: the elements are not copied into the new buffer
Grow_NoCopy(w, x) ==
    LET newCapacity == NewCapacity(w.cap[x])
        copy == NewId(w)
        w2 == DeleteArray(NewArray(w, copy, newCapacity), w.data[x])
    IN  [w2 EXCEPT !.data[x] = copy, !.cap[x] = newCapacity]

\* void Grow()
Grow(w, x) ==
    LET newCapacity == NewCapacity(w.cap[x])
        copy == NewId(w)
        w1 == CopyLoop(NewArray(w, copy, newCapacity), copy, w.data[x], 0, w.size[x])
        w2 == DeleteArray(w1, w.data[x])
    IN  [w2 EXCEPT !.data[x] = copy, !.cap[x] = newCapacity]

\* ------------------------------------------------------------ modification
\* m_Data[m_Size++] = value
StoreBack(w, x, v) ==
    [WriteCell(w, w.data[x], w.size[x], v) EXCEPT !.size[x] = @ + 1]

\* void PushBack(const T& value), void PushBack(T&& value)
PushBack(w, x, v) ==
    StoreBack(IF NeedsGrow(w, x) THEN Grow(w, x) ELSE w, x, v)

\* mutant: the loop runs upwards, for (i = 1; i < m_Size; ++i)
RECURSIVE ShiftRight_Ascending(_, _, _)
ShiftRight_Ascending(w, id, i) ==
    IF i > 0
    THEN LET w1 == ShiftRight_Ascending(w, id, i - 1)
         IN  WriteCell(w1, id, i, ReadCell(w1, id, i - 1))
    ELSE w

\* for (i = m_Size - 1; i > 0; --i) m_Data[i] = m_Data[i - 1];
RECURSIVE ShiftRight(_, _, _)
ShiftRight(w, id, i) ==
    IF i > 0 THEN ShiftRight(WriteCell(w, id, i, ReadCell(w, id, i - 1)), id, i - 1)
    ELSE w

\* for (i = from; i < m_Size - 1; ++i) m_Data[i] = std::move(m_Data[i + 1]);
RECURSIVE ShiftLeft(_, _, _, _)
ShiftLeft(w, id, i, to) ==
    IF i < to THEN ShiftLeft(WriteCell(w, id, i, ReadCell(w, id, i + 1)), id, i + 1, to)
    ELSE w

\* mutant: the size is incremented and nothing is shifted
OpenFront_NoShift(w, x) == [w EXCEPT !.size[x] = @ + 1]

\* ++m_Size; shift; (the store into m_Data[0] is done by the caller)
OpenFront(w, x) ==
    LET w1 == [w EXCEPT !.size[x] = @ + 1]
    IN  ShiftRight(w1, w1.data[x], w1.size[x] - 1)

\* void PushFront(const T& value), void PushFront(T&& value)
PushFront(w, x, v) ==
    LET w1 == OpenFront(IF NeedsGrow(w, x) THEN Grow(w, x) ELSE w, x)
    IN  WriteCell(w1, w1.data[x], 0, v)

\* The argument of PushBack / PushFront is a reference.  When it refers to
\* element k of the same vector it is read only at the final store, after
\* Grow() may have released the buffer it points into and after PushFront
\* has shifted the elements.  A read of released storage yields junk.
RefRead(w, id, k, junk) ==
    IF id \in w.live THEN [w |-> w, v |-> ReadCell(w, id, k)]
    ELSE [w |-> Flag(w, "uaf"), v |-> junk]

\* v.PushBack(v[k])
PushBackRef(w, x, k, junk) ==
    LET ref == w.data[x]
        w1 == IF NeedsGrow(w, x) THEN Grow(w, x) ELSE w
        r == RefRead(w1, ref, k, junk)
    IN  StoreBack(r.w, x, r.v)

\* v.PushFront(v[k])
PushFrontRef(w, x, k, junk) ==
    LET ref == w.data[x]
        w1 == OpenFront(IF NeedsGrow(w, x) THEN Grow(w, x) ELSE w, x)
        r == RefRead(w1, ref, k, junk)
    IN  WriteCell(r.w, r.w.data[x], 0, r.v)

\* A call that returns a value or throws: the world after it, the error
\* thrown ("none" when it returned) and the value returned.
Returned(w, v) == [w |-> w, err |-> "none", ret |-> v]
Thrown(w, e) == [w |-> w, err |-> e, ret |-> Undef]

\* mutant: no check for an empty vector
PopBack_NoCheck(w, x) ==
    LET w1 == [w EXCEPT !.size[x] = @ - 1]
    IN  Returned(w1, ReadCell(w1, w1.data[x], w1.size[x]))

\* T PopBack()
PopBack(w, x) ==
    IF w.size[x] = 0 THEN Thrown(w, "empty")
    ELSE LET w1 == [w EXCEPT !.size[x] = @ - 1]
         IN  Returned(w1, ReadCell(w1, w1.data[x], w1.size[x]))

\* mutant: the first element is returned but nothing is shifted down
PopFront_NoShift(w, x) ==
    IF w.size[x] = 0 THEN Thrown(w, "empty")
    ELSE Returned([w EXCEPT !.size[x] = @ - 1], ReadCell(w, w.data[x], 0))

\* T PopFront()
PopFront(w, x) ==
    IF w.size[x] = 0 THEN Thrown(w, "empty")
    ELSE LET value == ReadCell(w, w.data[x], 0)
             w1 == ShiftLeft(w, w.data[x], 0, w.size[x] - 1)
         IN  Returned([w1 EXCEPT !.size[x] = @ - 1], value)

\* mutant: the shift starts at the first element, whatever idx is
RemoveAt_FromZero(w, x, idx) ==
    IF idx >= w.size[x] THEN Thrown(w, "range")
    ELSE LET w1 == ShiftLeft(w, w.data[x], 0, w.size[x] - 1)
         IN  Returned([w1 EXCEPT !.size[x] = @ - 1], Undef)

\* mutant: the bounds check admits idx == m_Size
RemoveAt_OffByOne(w, x, idx) ==
    IF idx > w.size[x] THEN Thrown(w, "range")
    ELSE LET w1 == ShiftLeft(w, w.data[x], idx, w.size[x] - 1)
         IN  Returned([w1 EXCEPT !.size[x] = @ - 1], Undef)

\* void RemoveAt(size_t idx)
RemoveAt(w, x, idx) ==
    IF idx >= w.size[x] THEN Thrown(w, "range")
    ELSE LET w1 == ShiftLeft(w, w.data[x], idx, w.size[x] - 1)
         IN  Returned([w1 EXCEPT !.size[x] = @ - 1], Undef)

\* mutant: Clear() also forgets the capacity
Clear_ResetCapacity(w, x) == [w EXCEPT !.size[x] = 0, !.cap[x] = 0]

\* void Clear()
Clear(w, x) == [w EXCEPT !.size[x] = 0]

\* ------------------------------------------------------------------ access
\* T& At(size_t idx), read through the reference
At(w, x, idx) ==
    IF idx >= w.size[x] THEN Thrown(w, "range")
    ELSE Returned(w, ReadCell(w, w.data[x], idx))

\* At(idx) = v
AtAssign(w, x, idx, v) ==
    IF idx >= w.size[x] THEN Thrown(w, "range")
    ELSE Returned(WriteCell(w, w.data[x], idx, v), v)

\* mutant: Back() hands out the first element
Back_Front(w, x) ==
    IF w.size[x] = 0 THEN Thrown(w, "empty")
    ELSE Returned(w, ReadCell(w, w.data[x], 0))

\* T& Back()
Back(w, x) ==
    IF w.size[x] = 0 THEN Thrown(w, "empty")
    ELSE Returned(w, ReadCell(w, w.data[x], w.size[x] - 1))

\* T& Front()
Front(w, x) ==
    IF w.size[x] = 0 THEN Thrown(w, "empty")
    ELSE Returned(w, ReadCell(w, w.data[x], 0))

\* Vector(const std::initializer_list<T>& values) : Vector(values.size())
RECURSIVE PushAll(_, _, _, _)
PushAll(w, x, values, i) ==
    IF i <= Len(values) THEN PushAll(PushBack(w, x, values[i]), x, values, i + 1)
    ELSE w

\* mutant: no capacity is reserved before the elements are pushed
LitCtor_NoReserve(w, x, values) == PushAll(DefaultCtor(w, x), x, values, 1)

LitCtor(w, x, values) == PushAll(ReserveCtor(w, x, Len(values)), x, values, 1)

\* one call on a single vector, as data: c.op names the member function,
\* c.idx and c.v are its arguments where it has any
Calls ==
    [op : {"PushBack", "PushFront"}, idx : {0}, v : Values]
        \cup [op : {"PopBack", "PopFront", "Clear", "Front", "Back"}, idx : {0}, v : {Undef}]
        \cup [op : {"RemoveAt", "At"}, idx : 0..MaxSize, v : {Undef}]

Apply(w, x, c) ==
    CASE c.op = "PushBack" -> Returned(PushBack(w, x, c.v), Undef)
      [] c.op = "PushFront" -> Returned(PushFront(w, x, c.v), Undef)
      [] c.op = "PopBack" -> PopBack(w, x)
      [] c.op = "PopFront" -> PopFront(w, x)
      [] c.op = "RemoveAt" -> RemoveAt(w, x, c.idx)
      [] c.op = "Clear" -> Returned(Clear(w, x), Undef)
      [] c.op = "At" -> At(w, x, c.idx)
      [] c.op = "Front" -> Front(w, x)
      [] c.op = "Back" -> Back(w, x)

\* ------------------------------------------------------------- the program
NoCall == [op |-> "Init", self |-> NoInst, other |-> NoInst,
           err |-> "none", ret |-> Undef, grew |-> FALSE, ub |-> "none"]

Call(op, x, o) == [NoCall EXCEPT !.op = op, !.self = x, !.other = o]

Unpair(S) == IF copyPair \cap S # {} THEN {} ELSE copyPair

\* the model's bounds: the heap has MaxBuf buffers and MaxHeap slots in all,
\* and no vector is filled beyond MaxSize elements
RECURSIVE Slots(_, _)
Slots(w, ids) ==
    IF ids = {} THEN 0
    ELSE LET id == CHOOSE i \in ids : TRUE
         IN  Len(w.heap[id]) + Slots(w, ids \ {id})

InBounds(w) ==
    /\ w.ub # "nomem"
    /\ Slots(w, w.live) <= MaxHeap
    /\ \A x \in Inst : w.size[x] <= MaxSize

\* Slots at or beyond m_Size are dead storage: the container stores to such a
\* slot before it ever reads it (LiveInit below checks that no dead slot is
\* read into a live one or returned), so the state does not track what a dead
\* slot holds and keeps it as Undef.
RECURSIVE ForgetFrom(_, _, _)
ForgetFrom(w, id, i) ==
    IF id \in w.live /\ i < Len(w.heap[id])
    THEN ForgetFrom([w EXCEPT !.heap[id][i + 1] = Undef], id, i + 1)
    ELSE w

RECURSIVE ForgetDead(_, _)
ForgetDead(w, xs) ==
    IF xs = {} THEN w
    ELSE LET x == CHOOSE y \in xs : TRUE
         IN  ForgetDead(ForgetFrom(w, w.data[x], IF w.size[x] < 0 THEN 0 ELSE w.size[x]),
                        xs \ {x})

Effect(w, l, cp) ==
    /\ InBounds(w)
    /\ alive' = w.alive
    /\ m_Data' = w.data
    /\ m_Capacity' = w.cap
    /\ m_Size' = w.size
    /\ heap' = ForgetDead(w, Inst).heap
    /\ allocated' = w.live
    /\ last' = [l EXCEPT !.ub = w.ub]
    /\ copyPair' = cp

\* hist is kept by the push-only program alone
Commit(w, l, cp) == Effect(w, l, cp) /\ UNCHANGED hist

\* a call that returned a value or threw
CommitResult(r, l, cp) ==
    Commit(r.w, [l EXCEPT !.err = r.err, !.ret = r.ret], cp)

Init ==
    /\ alive = [x \in Inst |-> FALSE]
    /\ m_Data = [x \in Inst |-> NULL]
    /\ m_Capacity = [x \in Inst |-> 0]
    /\ m_Size = [x \in Inst |-> 0]
    /\ heap = [id \in BufIds |-> <<>>]
    /\ allocated = {}
    /\ last = NoCall
    /\ hist = [x \in Inst |-> <<>>]
    /\ copyPair = {}

CallDefaultCtor(x) ==
    /\ ~alive[x]
    /\ Commit(DefaultCtor(World, x), Call("DefaultCtor", x, NoInst), Unpair({x}))

CallReserveCtor(x, n) ==
    /\ ~alive[x]
    /\ Commit(ReserveCtor(World, x, n), Call("ReserveCtor", x, NoInst), Unpair({x}))

CallLitCtor(x, values) ==
    /\ ~alive[x]
    /\ Commit(LitCtor(World, x, values), Call("LitCtor", x, NoInst), Unpair({x}))

CallCopyCtor(x, o) ==
    /\ ~alive[x] /\ alive[o]
    /\ Commit(CopyCtor(World, x, o), Call("CopyCtor", x, o), {o, x})

CallMoveCtor(x, o) ==
    /\ ~alive[x] /\ alive[o]
    /\ Commit(MoveCtor(World, x, o), Call("MoveCtor", x, o), Unpair({x, o}))

CallCopyAssign(x, o) ==
    /\ alive[x] /\ alive[o]
    /\ Commit(CopyAssign(World, x, o), Call("CopyAssign", x, o),
              IF x = o THEN copyPair ELSE {o, x})

CallMoveAssign(x, o) ==
    /\ alive[x] /\ alive[o]
    /\ Commit(MoveAssign(World, x, o), Call("MoveAssign", x, o),
              IF x = o THEN copyPair ELSE Unpair({x, o}))

CallDtor(x) ==
    /\ alive[x]
    /\ Commit(Dtor(World, x), Call("Dtor", x, NoInst), Unpair({x}))

CallPushBack(x, v) ==
    /\ alive[x]
    /\ Commit(PushBack(World, x, v),
              [Call("PushBack", x, NoInst) EXCEPT !.grew = NeedsGrow(World, x)], copyPair)

CallPushFront(x, v) ==
    /\ alive[x]
    /\ Commit(PushFront(World, x, v),
              [Call("PushFront", x, NoInst) EXCEPT !.grew = NeedsGrow(World, x)], copyPair)

\* what a read of released storage may yield; only a call that grows releases
\* the buffer its argument points into
Junk(x) == IF NeedsGrow(World, x) THEN Values ELSE {Undef}

CallPushBackRef(x, k, junk) ==
    /\ alive[x] /\ k < m_Size[x]
    /\ Commit(PushBackRef(World, x, k, junk),
              [Call("PushBackRef", x, NoInst) EXCEPT !.grew = NeedsGrow(World, x)], copyPair)

CallPushFrontRef(x, k, junk) ==
    /\ alive[x] /\ k < m_Size[x]
    /\ Commit(PushFrontRef(World, x, k, junk),
              [Call("PushFrontRef", x, NoInst) EXCEPT !.grew = NeedsGrow(World, x)], copyPair)

CallPopBack(x) ==
    /\ alive[x]
    /\ CommitResult(PopBack(World, x), Call("PopBack", x, NoInst), copyPair)

CallPopFront(x) ==
    /\ alive[x]
    /\ CommitResult(PopFront(World, x), Call("PopFront", x, NoInst), copyPair)

CallRemoveAt(x, idx) ==
    /\ alive[x]
    /\ CommitResult(RemoveAt(World, x, idx), Call("RemoveAt", x, NoInst), copyPair)

CallClear(x) ==
    /\ alive[x]
    /\ Commit(Clear(World, x), Call("Clear", x, NoInst), copyPair)

CallAt(x, idx) ==
    /\ alive[x]
    /\ CommitResult(At(World, x, idx), Call("At", x, NoInst), copyPair)

CallAtAssign(x, idx, v) ==
    /\ alive[x]
    /\ CommitResult(AtAssign(World, x, idx, v), Call("AtAssign", x, NoInst), copyPair)

CallBack(x) ==
    /\ alive[x]
    /\ CommitResult(Back(World, x), Call("Back", x, NoInst), copyPair)

CallFront(x) ==
    /\ alive[x]
    /\ CommitResult(Front(World, x), Call("Front", x, NoInst), copyPair)

Indices == 0..MaxSize

Next ==
    \/ \E x \in Inst : CallDefaultCtor(x)
    \/ \E x \in Inst, n \in 0..MaxReserve : CallReserveCtor(x, n)
    \/ \E x \in Inst, values \in Lits : CallLitCtor(x, values)
    \/ \E x \in Inst, o \in Inst : CallCopyCtor(x, o)
    \/ \E x \in Inst, o \in Inst : CallMoveCtor(x, o)
    \/ \E x \in Inst, o \in Inst : CallCopyAssign(x, o)
    \/ \E x \in Inst, o \in Inst : CallMoveAssign(x, o)
    \/ \E x \in Inst : CallDtor(x)
    \/ \E x \in Inst, v \in Values : CallPushBack(x, v)
    \/ \E x \in Inst, v \in Values : CallPushFront(x, v)
    \/ \E x \in Inst, k \in Indices : \E junk \in Junk(x) : CallPushBackRef(x, k, junk)
    \/ \E x \in Inst, k \in Indices : \E junk \in Junk(x) : CallPushFrontRef(x, k, junk)
    \/ \E x \in Inst : CallPopBack(x)
    \/ \E x \in Inst : CallPopFront(x)
    \/ \E x \in Inst, idx \in Indices : CallRemoveAt(x, idx)
    \/ \E x \in Inst : CallClear(x)
    \/ \E x \in Inst, idx \in Indices : CallAt(x, idx)
    \/ \E x \in Inst, idx \in Indices, v \in Values : CallAtAssign(x, idx, v)
    \/ \E x \in Inst : CallBack(x)
    \/ \E x \in Inst : CallFront(x)

Spec == Init /\ [][Next]_vars

\* ------------------------------------------------------ push-only program
\* A program that only creates empty vectors, pushes back, reads through At()
\* and destroys; hist[x] is the sequence of values it has pushed onto x.
PushOnlyDefaultCtor(x) ==
    /\ ~alive[x]
    /\ Effect(DefaultCtor(World, x), Call("DefaultCtor", x, NoInst), copyPair)
    /\ hist' = [hist EXCEPT ![x] = <<>>]

PushOnlyReserveCtor(x, n) ==
    /\ ~alive[x]
    /\ Effect(ReserveCtor(World, x, n), Call("ReserveCtor", x, NoInst), copyPair)
    /\ hist' = [hist EXCEPT ![x] = <<>>]

PushOnlyPushBack(x, v) ==
    /\ alive[x]
    /\ Effect(PushBack(World, x, v),
              [Call("PushBack", x, NoInst) EXCEPT !.grew = NeedsGrow(World, x)], copyPair)
    /\ hist' = [hist EXCEPT ![x] = Append(@, v)]

PushOnlyAt(x, idx) ==
    /\ alive[x]
    /\ LET r == At(World, x, idx)
       IN  Effect(r.w, [Call("At", x, NoInst) EXCEPT !.err = r.err, !.ret = r.ret], copyPair)
    /\ UNCHANGED hist

PushOnlyDtor(x) ==
    /\ alive[x]
    /\ Effect(Dtor(World, x), Call("Dtor", x, NoInst), copyPair)
    /\ hist' = [hist EXCEPT ![x] = <<>>]

NextPushOnly ==
    \/ \E x \in Inst : PushOnlyDefaultCtor(x)
    \/ \E x \in Inst, n \in 0..MaxReserve : PushOnlyReserveCtor(x, n)
    \/ \E x \in Inst, v \in Values : PushOnlyPushBack(x, v)
    \/ \E x \in Inst, idx \in Indices : PushOnlyAt(x, idx)
    \/ \E x \in Inst : PushOnlyDtor(x)

SpecPushOnly == Init /\ [][NextPushOnly]_vars

\* ---------------------------------------------------------- front program
\* A program that creates vectors from literal sequences, pushes to the
\* front, pops from the front immediately after a PushFront on the same
\* vector, and destroys; hist[x] is the value given to the latest PushFront
\* on x followed by the elements x held before that call.
FrontLitCtor(x, values) ==
    /\ ~alive[x]
    /\ Effect(LitCtor(World, x, values), Call("LitCtor", x, NoInst), copyPair)
    /\ hist' = [hist EXCEPT ![x] = <<>>]

FrontPushFront(x, v) ==
    /\ alive[x]
    /\ Effect(PushFront(World, x, v),
              [Call("PushFront", x, NoInst) EXCEPT !.grew = NeedsGrow(World, x)], copyPair)
    /\ hist' = [hist EXCEPT ![x] = <<v>> \o Elems(x)]

FrontPopFront(x) ==
    /\ alive[x]
    /\ last.op = "PushFront" /\ last.self = x
    /\ LET r == PopFront(World, x)
       IN  Effect(r.w, [Call("PopFront", x, NoInst) EXCEPT !.err = r.err, !.ret = r.ret],
                  copyPair)
    /\ UNCHANGED hist

FrontDtor(x) ==
    /\ alive[x]
    /\ Effect(Dtor(World, x), Call("Dtor", x, NoInst), copyPair)
    /\ hist' = [hist EXCEPT ![x] = <<>>]

NextFront ==
    \/ \E x \in Inst, values \in Lits : FrontLitCtor(x, values)
    \/ \E x \in Inst, v \in Values : FrontPushFront(x, v)
    \/ \E x \in Inst : FrontPopFront(x)
    \/ \E x \in Inst : FrontDtor(x)

SpecFront == Init /\ [][NextFront]_vars

\* ------------------------------------------------------------------ typing
TypeOK ==
    /\ alive \in [Inst -> BOOLEAN]
    /\ m_Data \in [Inst -> BufIds \cup {NULL}]
    /\ m_Capacity \in [Inst -> 0..MaxHeap]
    /\ m_Size \in [Inst -> 0..MaxSize]
    /\ copyPair \in {{}, Inst}
    /\ allocated \subseteq BufIds
    /\ \A id \in BufIds : \A i \in 1..Len(heap[id]) : heap[id][i] \in Values \cup {Undef}
    /\ \A id \in BufIds \ allocated : heap[id] = <<>>

\* no live element and no returned value was read from dead or uninitialised
\* storage
LiveInit ==
    /\ \A x \in Inst : alive[x] => \A i \in 1..m_Size[x] : Elems(x)[i] \in Values
    /\ (last.op \in {"PopBack", "PopFront", "At", "AtAssign", "Back", "Front"}
            /\ last.err = "none") => last.ret \in Values

\* ------------------------------------------------------------------ claims
ProgVars == <<alive, m_Data, m_Capacity, m_Size, heap, allocated>>
View(x) == <<m_Size[x], m_Capacity[x], Elems(x)>>
Max(m, n) == IF m >= n THEN m ELSE n
\* the elements of x in the world w, and the sequence s without its i-th element
ElemsOf(w, x) == [i \in 1..w.size[x] |-> ReadCell(w, w.data[x], i - 1)]
Without(s, i) == [j \in 1..(Len(s) - 1) |-> IF j < i THEN s[j] ELSE s[j + 1]]
PushOps == {"PushBack", "PushFront", "PushBackRef", "PushFrontRef"}
ReadOps == {"At", "AtAssign", "Front", "Back"}
RemoveOps == {"PopBack", "PopFront", "RemoveAt", "Clear"}
MutatingOps == PushOps \cup {"PopBack", "PopFront", "RemoveAt", "Clear", "AtAssign"}

\* C1: in every reachable state every vector has 0 <= size <= capacity.
C1_SizeWithinCapacity ==
    \A x \in Inst : 0 <= m_Size[x] /\ m_Size[x] <= m_Capacity[x]

\* a push has just grown a full vector and filled it again
C1_Witness ==
    /\ last.op = "PushBack" /\ last.grew
    /\ m_Size[last.self] = 2 /\ m_Capacity[last.self] = 2

\* C2: in the push-only program, a vector that started empty and received
\* the pushes hist has size Len(hist) and At(i) returns hist[i + 1] for every
\* i below the size, whatever growths happened in between.
C2_PushBackOrder ==
    \A x \in Inst :
        alive[x] =>
            /\ m_Size[x] = Len(hist[x])
            /\ \A i \in 0..(Len(hist[x]) - 1) :
                   At(World, x, i).err = "none" /\ At(World, x, i).ret = hist[x][i + 1]

\* three pushes of differing values onto a default-constructed vector: it
\* grew 0 -> 1 -> 2 -> 4
C2_Witness ==
    /\ last.op = "PushBack" /\ last.grew
    /\ Len(hist[last.self]) = 3 /\ m_Capacity[last.self] = 4
    /\ hist[last.self][1] # hist[last.self][3]

\* old occurs in new, in order, after at most one inserted leading element
KeepsOrder(old, new) ==
    /\ Len(new) = Len(old) + 1
    /\ \E k \in 0..1 : \A i \in 1..Len(old) : new[i + k] = old[i]

\* C3: a push (back or front) onto a vector with size = capacity leaves the
\* capacity at exactly max(1, 2 * old capacity), a push onto a vector with
\* size < capacity leaves the capacity unchanged, and either way the
\* elements live before the call are all still there in the same order.
C3_GrowthDoubles ==
    [][\A x \in Inst :
          (last'.op \in PushOps /\ last'.self = x) =>
              /\ m_Size[x] = m_Capacity[x] =>
                     m_Capacity'[x] = Max(1, 2 * m_Capacity[x])
              /\ m_Size[x] < m_Capacity[x] => m_Capacity'[x] = m_Capacity[x]
              /\ KeepsOrder(Elems(x), Elems(x)')]_vars

\* a PushFront has just grown a full two-element vector to capacity 4
C3_Witness ==
    /\ last.op = "PushFront" /\ last.grew
    /\ m_Size[last.self] = 3 /\ m_Capacity[last.self] = 4
    /\ Elems(last.self)[2] # Elems(last.self)[3]

\* C4: a move construction or move assignment of x from a distinct o leaves
\* o with size 0, capacity 0 and no buffer, and x with the size, capacity
\* and elements o had before, in the same order.
C4_MoveTransfers ==
    [][\A x \in Inst, o \in Inst :
          (/\ last'.op \in {"MoveCtor", "MoveAssign"}
           /\ last'.self = x /\ last'.other = o /\ x # o) =>
              /\ m_Size'[o] = 0 /\ m_Capacity'[o] = 0 /\ m_Data'[o] = NULL
              /\ m_Size'[x] = m_Size[o] /\ m_Capacity'[x] = m_Capacity[o]
              /\ Elems(x)' = Elems(o)
              /\ m_Data'[x] = m_Data[o]]_vars

\* a move assignment has just handed over a buffer with two differing
\* elements and spare capacity
C4_Witness ==
    /\ last.op = "MoveAssign" /\ last.self # last.other
    /\ m_Size[last.self] = 2 /\ m_Capacity[last.self] = 4
    /\ Elems(last.self)[1] # Elems(last.self)[2]
    /\ m_Data[last.other] = NULL

\* C5: while x and y are a copy and its source, a modifying call on one of
\* them (a push, a pop, RemoveAt, Clear, a store through At) leaves the
\* size, capacity and elements of the other unchanged.
C5_CopyIndependent ==
    [][\A x \in Inst :
          (/\ copyPair # {} /\ copyPair' = copyPair /\ x \in copyPair
           /\ last'.self = x /\ last'.op \in MutatingOps) =>
              \A y \in copyPair \ {x} : View(y)' = View(y)]_vars

\* a store through At() has just made a copy differ from its source
C5_Witness ==
    /\ copyPair # {} /\ last.op = "AtAssign" /\ last.err = "none"
    /\ \E y \in copyPair \ {last.self} :
           /\ m_Size[y] = m_Size[last.self]
           /\ Elems(y) # Elems(last.self)

\* C6: no two distinct live vectors hold the same buffer.
C6_NoSharedBuffer ==
    \A x \in Inst, y \in Inst :
        (x # y /\ alive[x] /\ alive[y] /\ m_Data[x] # NULL) => m_Data[x] # m_Data[y]

\* a copy and its source both hold a buffer and one of them has just grown
C6_Witness ==
    /\ copyPair # {} /\ last.op \in PushOps /\ last.grew
    /\ \A x \in Inst : alive[x] /\ m_Data[x] # NULL /\ m_Size[x] >= 1

\* C7: no buffer is released twice, no released buffer is accessed, and the
\* allocated buffers are exactly those held by live vectors (so none is left
\* once every vector is destroyed, and a moved-from vector has none to
\* release).
C7_ReleasedExactlyOnce ==
    /\ last.ub \notin {"doublefree", "uaf"}
    /\ allocated = {m_Data[x] : x \in {y \in Inst : alive[y] /\ m_Data[y] # NULL}}

\* C8 as claimed: a vector with capacity 0 holds no allocated buffer.
C8_NoBufferAtCapacityZero ==
    \A x \in Inst : (alive[x] /\ m_Capacity[x] = 0) => m_Data[x] = NULL

\* C8 as amended: a vector with capacity 0 holds no element storage: its
\* buffer is absent or is an allocation of zero slots.  It is absent after
\* default construction and in the source of a move; it is a (zero-length,
\* when the capacity is 0) allocation after construction with a reserved
\* capacity, from a literal sequence, or by copy, and after copy assignment.
C8_NoSlotsAtCapacityZero ==
    /\ \A x \in Inst :
          (alive[x] /\ m_Capacity[x] = 0) =>
              \/ m_Data[x] = NULL
              \/ m_Data[x] \in allocated /\ heap[m_Data[x]] = <<>>
    /\ last.op = "DefaultCtor" => m_Data[last.self] = NULL
    /\ (last.op \in {"MoveCtor", "MoveAssign"} /\ last.self # last.other) =>
           m_Data[last.other] = NULL
    /\ (\/ last.op \in {"ReserveCtor", "LitCtor", "CopyCtor"}
        \/ last.op = "CopyAssign" /\ last.self # last.other) =>
           m_Data[last.self] \in allocated

\* a copy of a vector without a buffer holds a zero-length allocation
C8_Witness ==
    /\ last.op = "CopyCtor"
    /\ m_Data[last.other] = NULL
    /\ m_Capacity[last.self] = 0 /\ m_Data[last.self] \in allocated

\* C9: on every vector and for every idx >= size (idx = size, idx within
\* the capacity, idx beyond it), At(idx), a store through At(idx) and
\* RemoveAt(idx) throw the out-of-range error and return the program state
\* they were given; a call that threw it has left every vector and the heap
\* as they were.
C9_OutOfRangeThrows ==
    /\ [](\A x \in Inst, idx \in Indices :
             (alive[x] /\ idx >= m_Size[x]) =>
                 /\ At(World, x, idx) = Thrown(World, "range")
                 /\ RemoveAt(World, x, idx) = Thrown(World, "range")
                 /\ \A v \in Values : AtAssign(World, x, idx, v) = Thrown(World, "range"))
    /\ [][(last'.op \in {"At", "AtAssign", "RemoveAt"} /\ last'.err = "range") =>
              UNCHANGED ProgVars]_vars

\* RemoveAt has just thrown on a non-empty vector with spare capacity
C9_Witness ==
    /\ last.op = "RemoveAt" /\ last.err = "range"
    /\ m_Size[last.self] >= 1 /\ m_Size[last.self] < m_Capacity[last.self]

\* C10: PopBack, PopFront, Front and Back on a vector of size 0 throw the
\* empty-container error and leave every vector and the heap as they were
\* (size stays 0, capacity is unchanged).
C10_EmptyThrows ==
    [][\A x \in Inst :
          (/\ alive[x] /\ m_Size[x] = 0
           /\ last'.self = x /\ last'.op \in {"PopBack", "PopFront", "Front", "Back"}) =>
              (/\ last'.err = "empty"
               /\ m_Size'[x] = 0 /\ m_Capacity'[x] = m_Capacity[x]
               /\ UNCHANGED ProgVars)]_vars

\* PopBack has just thrown on an emptied vector that still has its buffer
C10_Witness ==
    /\ last.op = "PopBack" /\ last.err = "empty"
    /\ m_Capacity[last.self] > 0

\* C11: PopBack on a non-empty vector returns the value Back() returned
\* immediately before the call, decreases the size by exactly 1 and leaves
\* the elements at [0, size - 1) as they were.
C11_PopBackReturnsBack ==
    [][\A x \in Inst :
          (/\ last'.op = "PopBack" /\ last'.self = x
           /\ alive[x] /\ m_Size[x] > 0) =>
              /\ Back(World, x).err = "none"
              /\ last'.err = "none" /\ last'.ret = Back(World, x).ret
              /\ m_Size'[x] = m_Size[x] - 1
              /\ Elems(x)' = SubSeq(Elems(x), 1, m_Size[x] - 1)]_vars

\* PopBack has just returned the last of three elements, which differed
\* from the first
C11_Witness ==
    /\ last.op = "PopBack" /\ last.err = "none"
    /\ m_Size[last.self] = 2
    /\ last.ret # Elems(last.self)[1]

\* C12: in the front program, a PopFront that immediately follows
\* PushFront(v) on the same vector returns v and leaves the vector with the
\* size and the element sequence it had before the PushFront (a
\* single-element vector included; the capacity may have grown).
C12_PushFrontPopFront ==
    last.op = "PopFront" =>
        LET x == last.self
        IN  /\ last.err = "none" /\ last.ret = Head(hist[x])
            /\ m_Size[x] = Len(hist[x]) - 1
            /\ Elems(x) = Tail(hist[x])

\* the round trip has just ended on a full single-element vector, which
\* grew for the PushFront, with a value other than the one it held
C12_Witness ==
    /\ last.op = "PopFront"
    /\ Len(hist[last.self]) = 2 /\ hist[last.self][1] # hist[last.self][2]
    /\ m_Capacity[last.self] = 2

\* C13: on every vector with elements s and for every idx < size (the last
\* index and a single-element vector included), RemoveAt(idx) returns
\* normally and yields exactly s without its idx-th element: the size drops
\* by 1, the elements before idx stay and each element after idx moves down
\* by one; every RemoveAt call that returned has had this effect for some
\* idx below the size.
C13_RemoveAtDeletes ==
    /\ [](\A x \in Inst, idx \in Indices :
             (alive[x] /\ idx < m_Size[x]) =>
                 LET r == RemoveAt(World, x, idx)
                 IN  /\ r.err = "none"
                     /\ r.w.size[x] = m_Size[x] - 1
                     /\ ElemsOf(r.w, x) = Without(Elems(x), idx + 1)
                     /\ \A j \in 0..(m_Size[x] - 2) :
                            At(r.w, x, j).ret = At(World, x, IF j < idx THEN j ELSE j + 1).ret)
    /\ [][\A x \in Inst :
              (last'.op = "RemoveAt" /\ last'.err = "none" /\ last'.self = x) =>
                  /\ m_Size'[x] = m_Size[x] - 1
                  /\ \E idx \in 0..(m_Size[x] - 1) :
                         Elems(x)' = Without(Elems(x), idx + 1)]_vars

\* RemoveAt has just taken one element out of three and the two that are
\* left differ
C13_Witness ==
    /\ last.op = "RemoveAt" /\ last.err = "none"
    /\ m_Size[last.self] = 2
    /\ Elems(last.self)[1] # Elems(last.self)[2]

\* C14: on every vector with elements s (an empty one and a full one that
\* must grow included) and for every value v, PushFront(v) yields v
\* followed by s: At(0) is v, the old At(i) is the new At(i + 1), and the
\* size is one more; every PushFront call has had this effect.
C14_PushFrontPrepends ==
    /\ [](\A x \in Inst, v \in Values :
             alive[x] =>
                 LET w == PushFront(World, x, v)
                 IN  /\ w.ub = "none"
                     /\ w.size[x] = m_Size[x] + 1
                     /\ ElemsOf(w, x) = <<v>> \o Elems(x)
                     /\ At(w, x, 0) = Returned(w, v)
                     /\ \A i \in 0..(m_Size[x] - 1) :
                            At(w, x, i + 1).ret = At(World, x, i).ret)
    /\ [][\A x \in Inst :
              (last'.op = "PushFront" /\ last'.self = x) =>
                  /\ m_Size'[x] = m_Size[x] + 1
                  /\ Elems(x)'[1] \in Values
                  /\ Tail(Elems(x)') = Elems(x)]_vars

\* PushFront has just grown a full single-element vector and put a
\* different value in front of its element
C14_Witness ==
    /\ last.op = "PushFront" /\ last.grew
    /\ m_Size[last.self] = 2 /\ m_Capacity[last.self] = 2
    /\ Elems(last.self)[1] # Elems(last.self)[2]

\* C15: PopFront on a non-empty vector with elements s returns s[0] (the
\* value Front() returns before the call) and leaves exactly s[1..]: the
\* size is one less and each remaining element has moved down by one.
C15_PopFrontReturnsFirst ==
    [][\A x \in Inst :
          (/\ last'.op = "PopFront" /\ last'.self = x
           /\ alive[x] /\ m_Size[x] > 0) =>
              /\ last'.err = "none"
              /\ last'.ret = Elems(x)[1] /\ last'.ret = Front(World, x).ret
              /\ m_Size'[x] = m_Size[x] - 1
              /\ Elems(x)' = Tail(Elems(x))]_vars

\* PopFront has just returned the first of three elements and the two left
\* differ from it and from each other in turn
C15_Witness ==
    /\ last.op = "PopFront" /\ last.err = "none"
    /\ m_Size[last.self] = 2
    /\ last.ret # Elems(last.self)[1]
    /\ Elems(last.self)[1] # Elems(last.self)[2]

\* C16: every step of a push, a pop, RemoveAt, Clear, At, Front or Back on
\* a vector leaves its capacity at least what it was, so the capacity never
\* decreases along any sequence of these calls; the removals, Clear and the
\* reads (throwing or not) leave the capacity and the buffer exactly as they
\* were, Clear sets the size to 0, and the capacity changes only in a push
\* that found the vector full and grew it.  The other vector's capacity is
\* not touched.
C16_CapacityNeverShrinks ==
    [][\A x \in Inst :
          (last'.self = x /\ last'.op \in PushOps \cup RemoveOps \cup ReadOps) =>
              /\ m_Capacity'[x] >= m_Capacity[x]
              /\ last'.op \in RemoveOps \cup ReadOps =>
                     /\ m_Capacity'[x] = m_Capacity[x]
                     /\ m_Data'[x] = m_Data[x]
                     /\ allocated' = allocated
              /\ last'.op = "Clear" => m_Size'[x] = 0
              /\ m_Capacity'[x] # m_Capacity[x] =>
                     /\ last'.op \in PushOps /\ last'.grew
                     /\ m_Size[x] = m_Capacity[x]
              /\ \A y \in Inst \ {x} : m_Capacity'[y] = m_Capacity[y]]_vars

\* Clear has just emptied a vector that keeps a buffer of capacity 4
C16_Witness ==
    /\ last.op = "Clear"
    /\ m_Size[last.self] = 0 /\ m_Capacity[last.self] = 4
    /\ m_Data[last.self] \in allocated

\* C17: a copy assignment or a move assignment of a vector to itself is a
\* no-op: size, capacity, elements and buffer are what they were, the
\* buffer is not released, and nothing else in the program changes.
C17_SelfAssignNoOp ==
    [][(last'.op \in {"CopyAssign", "MoveAssign"} /\ last'.self = last'.other) =>
           /\ UNCHANGED ProgVars
           /\ last'.ub = "none"]_vars

\* a vector holding two differing elements has just been move-assigned to
\* itself and still holds its buffer
C17_Witness ==
    /\ last.op = "MoveAssign" /\ last.self = last.other
    /\ m_Size[last.self] = 2 /\ Elems(last.self)[1] # Elems(last.self)[2]
    /\ m_Data[last.self] \in allocated

\* what a caller sees of a call on x: the error or the value returned, and
\* the size and capacity (and whether behaviour was defined) afterwards
Observed(r, x) == <<r.err, r.ret, r.w.size[x], r.w.cap[x], r.w.ub>>

\* the vector x of w1 and the vector x of w2 give the same observations
\* under every sequence of at most n calls
RECURSIVE SameRuns(_, _, _, _)
SameRuns(w1, w2, x, n) ==
    \/ n = 0
    \/ \A c \in Calls :
           LET r1 == Apply(w1, x, c)
               r2 == Apply(w2, x, c)
           IN  /\ Observed(r1, x) = Observed(r2, x)
               /\ SameRuns(r1.w, r2.w, x, n - 1)

\* C18: right after a move construction or move assignment from a distinct
\* vector o, o is in the very state the default constructor produces (no
\* buffer, capacity 0, size 0), and under every sequence of up to MaxRun
\* calls it returns, throws, and reports size and capacity exactly as a
\* freshly created empty vector does, be that one default-constructed or
\* constructed with capacity 0; in particular PushBack on it succeeds,
\* allocating a new buffer of capacity 1 and leaving size 1.
C18_MovedFromIsFresh ==
    (last.op \in {"MoveCtor", "MoveAssign"} /\ last.self # last.other) =>
        LET o == last.other
        IN  /\ alive[o]
            /\ World = DefaultCtor(World, o)
            /\ SameRuns(World, DefaultCtor(World, o), o, MaxRun)
            /\ SameRuns(World, ReserveCtor(World, o, 0), o, MaxRun)
            /\ \A v \in Values :
                   LET w == PushBack(World, o, v)
                   IN  /\ w.ub = "none"
                       /\ w.size[o] = 1 /\ w.cap[o] = 1
                       /\ w.data[o] \in w.live \ allocated
                       /\ At(w, o, 0) = Returned(w, v)

\* a move construction has just emptied a vector that held two elements in
\* a buffer of capacity 4
C18_Witness ==
    /\ last.op = "MoveCtor" /\ last.self # last.other
    /\ m_Size[last.self] = 2 /\ m_Capacity[last.self] = 4
    /\ m_Size[last.other] = 0

\* C19: a copy construction of x from o, or a copy assignment x = o with x
\* and o distinct (whatever size and capacity x had), leaves x with the
\* size, the capacity and the elements of o in a buffer of its own, and
\* leaves o's size, capacity, elements and buffer as they were.
C19_CopyEqualsSource ==
    [][\A x \in Inst, o \in Inst :
          (/\ last'.op \in {"CopyCtor", "CopyAssign"}
           /\ last'.self = x /\ last'.other = o /\ x # o) =>
              /\ last'.ub = "none"
              /\ m_Size'[x] = m_Size[o] /\ m_Capacity'[x] = m_Capacity[o]
              /\ Elems(x)' = Elems(o)
              /\ m_Data'[x] \in allocated' \ {m_Data[o]}
              /\ View(o)' = View(o)
              /\ m_Data'[o] = m_Data[o]
              /\ m_Data[o] # NULL =>
                     m_Data[o] \in allocated' /\ heap'[m_Data[o]] = heap[m_Data[o]]]_vars

\* a copy assignment has just given a vector the two differing elements of
\* its source
C19_Witness ==
    /\ last.op = "CopyAssign" /\ last.self # last.other
    /\ m_Size[last.self] = 2 /\ m_Capacity[last.self] = 2
    /\ Elems(last.self)[1] # Elems(last.self)[2]
    /\ View(last.self) = View(last.other)

\* C20: wherever a vector x can be constructed and for every literal
\* sequence of length n, the literal constructor reserves a buffer of
\* capacity n once and then appends each element without any push finding
\* the vector full: the result has size n, capacity exactly n, At(i) is the
\* i-th element of the literal, and its buffer is the one reserved at the
\* start, the only allocation made; every vector just constructed from a
\* literal is full.
C20_LiteralCtorExactCapacity ==
    /\ \A x \in Inst, values \in Lits :
          ~alive[x] =>
              LET n == Len(values)
                  w == LitCtor(World, x, values)
              IN  /\ w.ub = "none"
                  /\ w.size[x] = n /\ w.cap[x] = n
                  /\ ElemsOf(w, x) = values
                  /\ \A i \in 0..(n - 1) : At(w, x, i) = Returned(w, values[i + 1])
                  /\ w.data[x] = ReserveCtor(World, x, n).data[x]
                  /\ w.live = allocated \cup {w.data[x]}
                  /\ Len(w.heap[w.data[x]]) = n
                  /\ \A k \in 0..(n - 1) :
                         LET wk == PushAll(ReserveCtor(World, x, n), x, SubSeq(values, 1, k), 1)
                         IN  wk.cap[x] = n /\ ~NeedsGrow(wk, x)
    /\ last.op = "LitCtor" =>
           /\ last.ub = "none"
           /\ m_Size[last.self] = m_Capacity[last.self]
           /\ m_Data[last.self] \in allocated

\* a vector has just been constructed from a literal of two differing
\* elements
C20_Witness ==
    /\ last.op = "LitCtor"
    /\ m_Size[last.self] = 2 /\ m_Capacity[last.self] = 2
    /\ Elems(last.self) \in Lits /\ Elems(last.self)[1] # Elems(last.self)[2]

\* C21: on every vector x and for every k below its size, a push whose
\* argument is a reference to element k of x itself, x.PushBack(x[k]) or
\* x.PushFront(x[k]), inserts the value element k held before the call,
\* at the back or at the front of the old elements, whether or not the
\* call grows the vector, and reads no released buffer.
C21_AliasedPushInsertsOldValue ==
    \A x \in Inst, k \in Indices :
        (alive[x] /\ k < m_Size[x]) =>
            \A junk \in Junk(x) :
                LET back == PushBackRef(World, x, k, junk)
                    front == PushFrontRef(World, x, k, junk)
                IN  /\ back.ub = "none" /\ front.ub = "none"
                    /\ ElemsOf(back, x) = Append(Elems(x), Elems(x)[k + 1])
                    /\ ElemsOf(front, x) = <<Elems(x)[k + 1]>> \o Elems(x)

====
